---- MODULE Spec2Model ----
(***************************************************************************)
(* Model of src/window.rs: display_image and its nested helper             *)
(* create_display_image.  The fit arithmetic is carried out in IEEE-754    *)
(* binary32 (Rust f32), modelled bit-exactly on non-negative finite        *)
(* values; the session is modelled statement by statement with a program   *)
(* counter, every `expect`/`unwrap` being a step that may panic.           *)
(***************************************************************************)
EXTENDS Integers, Sequences, FiniteSets, TLC

(***************************************************************************)
(* Bounds of the model.                                                    *)
(***************************************************************************)
MaxQueue == 2
MaxFitDim == 8

(***************************************************************************)
(* Program constants.                                                      *)
(***************************************************************************)
MIN_WINDOW_DIMENSION == 150
CHANNEL_COUNT == 4

(***************************************************************************)
(* binary32 arithmetic.  A value is [m, e] standing for m * 2^e with       *)
(* 2^23 <= m < 2^24 (24 significant bits), or F32Zero.  Only non-negative  *)
(* finite values occur: every operand is a u32 converted with `as f32`, a  *)
(* quotient of two such values with a non-zero divisor, or a product.      *)
(* Rounding is round-to-nearest, ties-to-even.  Products are formed in     *)
(* 12-bit limbs so that no intermediate leaves the 32-bit integer range.   *)
(***************************************************************************)
F32MantBits == 24
F32Hidden == 8388608
F32Limit == 16777216
F32LimbBase == 4096

Pow2[n \in Nat] == IF n = 0 THEN 1 ELSE 2 * Pow2[n - 1]

F32Zero == [m |-> 0, e |-> 0]
F32 == [m : Nat, e : Int]

\* The operations are written as functions so that their operands are
\* evaluated once, before the operation is applied.

\* round to nearest, ties to even: the truncated mantissa m0 (exponent e0)
\* is incremented when the discarded part rem exceeds half a unit, or
\* equals it and m0 is odd
F32Pack[m0 \in Nat, e0 \in Int, rem \in Nat, half \in Nat] ==
  LET m1 == IF rem > half \/ (rem = half /\ m0 % 2 = 1) THEN m0 + 1 ELSE m0
  IN  IF m1 = F32Limit THEN [m |-> F32Hidden, e |-> e0 + 1]
      ELSE [m |-> m1, e |-> e0]

\* normalise a non-zero integer below 2^24
F32ShiftUp[n \in Nat, e \in Int] ==
  IF n >= F32Hidden THEN [m |-> n, e |-> e] ELSE F32ShiftUp[2 * n, e - 1]

\* number of low bits to drop so that n fits in 24 bits
F32Excess[n \in Nat] == IF n < F32Limit THEN 0 ELSE 1 + F32Excess[n \div 2]

\* n with its s low bits rounded away (s >= 1)
F32Narrow[n \in Nat, s \in Nat] ==
  F32Pack[n \div Pow2[s], s, 2 * (n % Pow2[s]), Pow2[s]]

\* `n as f32` for a u32 n
ToF32[n \in Nat] ==
  IF n = 0 THEN F32Zero
  ELSE IF n < F32Limit THEN F32ShiftUp[n, 0]
  ELSE F32Narrow[n, F32Excess[n]]

\* long division: extend quotient q (remainder r, divisor d) by n bits and
\* round the result, whose exponent is e
F32DivLoop[q \in Nat, r \in Nat, d \in Nat, n \in Nat, e \in Int] ==
  IF n = 0 THEN F32Pack[q, e, 2 * r, d]
  ELSE IF 2 * r >= d THEN F32DivLoop[2 * q + 1, 2 * r - d, d, n - 1, e]
       ELSE F32DivLoop[2 * q, 2 * r, d, n - 1, e]

\* a / b in f32, b non-zero
F32Div[a \in F32, b \in F32] ==
  IF a.m = 0 THEN F32Zero
  ELSE LET n == IF a.m >= b.m THEN F32MantBits - 1 ELSE F32MantBits
       IN  F32DivLoop[a.m \div b.m, a.m % b.m, b.m, n, a.e - b.e - n]

\* the 48-bit product hi * 2^24 + lo of two mantissas, rounded to 24 bits
F32MulRound[hi \in Nat, lo \in Nat, e \in Int] ==
  IF hi >= F32Hidden
  THEN F32Pack[hi, e + 24, lo, F32Hidden]
  ELSE F32Pack[2 * hi + (lo \div F32Hidden), e + 23,
               2 * (lo % F32Hidden), F32Hidden]

\* sum the limb products a1*b1, a1*b0 + a0*b1 (mid) and a0*b0 (low)
F32MulSum[high \in Nat, mid \in Nat, low \in Nat, e \in Int] ==
  LET B  == F32LimbBase
      t1 == mid + (low \div B)
  IN  F32MulRound[high + (t1 \div B), (t1 % B) * B + (low % B), e]

\* a * b in f32
F32Mul[a \in F32, b \in F32] ==
  IF a.m = 0 \/ b.m = 0 THEN F32Zero
  ELSE LET B == F32LimbBase
       IN  F32MulSum[(a.m \div B) * (b.m \div B),
                     (a.m \div B) * (b.m % B) + (a.m % B) * (b.m \div B),
                     (a.m % B) * (b.m % B), a.e + b.e]

\* a < b in f32
F32Lt[a \in F32, b \in F32] ==
  IF b.m = 0 THEN FALSE
  ELSE IF a.m = 0 THEN TRUE
  ELSE a.e < b.e \/ (a.e = b.e /\ a.m < b.m)

\* the smaller of two scales, as the `if width_scale < height_scale` does
F32Min[a \in F32, b \in F32] == IF F32Lt[a, b] THEN a ELSE b

I32Max == 2147483647

\* `a as u32` / `a as i32` of a non-negative f32: truncation toward zero,
\* saturating.  Values from 2^31 on are reported as I32Max (exact for i32;
\* for u32 they lie outside the range of dimensions the model draws).
F32ToInt[a \in F32] ==
  IF a.m = 0 THEN 0
  ELSE IF a.e >= 8 THEN I32Max
  ELSE IF a.e >= 0 THEN a.m * Pow2[a.e]
  ELSE IF a.e <= 0 - F32MantBits THEN 0
  ELSE a.m \div Pow2[0 - a.e]

(***************************************************************************)
(* create_display_image (lines 27-52).  The image is represented by its    *)
(* dimensions; the returned pixel buffer is represented by how it was      *)
(* produced: "clone" (image.clone()) or "resize" (imageops::resize with    *)
(* the Triangle filter to the returned width and height).                  *)
(***************************************************************************)
FitsWithin(w, h, window_width, window_height) ==
  h < window_height /\ w < window_width

\* lines 37-45
FitScale[w \in Nat, h \in Nat, window_width \in Nat, window_height \in Nat] ==
  F32Min[F32Div[ToF32[window_width], ToF32[w]],
         F32Div[ToF32[window_height], ToF32[h]]]

\* lines 46-47: (scale * dim as f32) as u32
Scaled[scale \in F32, dim \in Nat] == F32ToInt[F32Mul[scale, ToF32[dim]]]

create_display_image(w, h, window_width, window_height) ==
  IF FitsWithin(w, h, window_width, window_height)
  THEN [width |-> w, height |-> h, pixels |-> "clone"]
  ELSE [width  |-> Scaled[FitScale[w, h, window_width, window_height], w],
        height |-> Scaled[FitScale[w, h, window_width, window_height], h],
        pixels |-> "resize"]

\* variant: the whole margin is put on one side
CenterNoHalf(window_dim, image_dim) ==
  IF image_dim <= window_dim THEN window_dim - image_dim ELSE I32Max

\* ((window_dim - image_dim) as f32 / 2.0_f32) as i32   (lines 93-94, 146-147)
\* When image_dim > window_dim the u32 subtraction overflows: a build with
\* overflow checks panics there (the failing outcome of the render steps),
\* a build without them wraps to 2^32 - d, which for the small d at stake
\* converts to 2^32 as f32 and to i32::MAX after halving.
Center(window_dim, image_dim) ==
  IF image_dim <= window_dim
  THEN F32ToInt[F32Div[ToF32[window_dim - image_dim], ToF32[2]]]
  ELSE I32Max

(***************************************************************************)
(* The inputs the model draws.  Images are source dimensions, Requests the *)
(* (window_width, window_height) arguments, ResizeSizes the (x, y) carried *)
(* by WindowEvent::Resized.  The values are the scenarios of the           *)
(* specification plus boundary cases: a source as wide as the clamped      *)
(* window, a source whose width scale is inexact in f32, a very flat       *)
(* source, requests below, at and above the minimum, and a resize below    *)
(* the minimum (the handler casts x and y and uses them as delivered).     *)
(***************************************************************************)
Images == {<<100, 80>>, <<1000, 500>>, <<150, 100>>, <<291, 100>>, <<1000, 1>>}
Requests == {<<50, 50>>, <<800, 600>>, <<100, 200>>}
ResizeSizes == {<<300, 300>>, <<120, 100>>}

Event(type, x, y) == [type |-> type, x |-> x, y |-> y]
Quit == Event("Quit", 0, 0)
Escape == Event("KeyDownEscape", 0, 0)
OtherKey == Event("KeyDownOther", 0, 0)
Resized(x, y) == Event("WindowResized", x, y)
NoEvent == Event("none", 0, 0)
Events == {Quit, Escape, OtherKey} \cup {Resized(s[1], s[2]) : s \in ResizeSizes}

None == [width |-> 0, height |-> 0, pixels |-> "none"]
NoSurface == [width |-> 0, height |-> 0, pitch |-> 0, pixels |-> "none"]
NoFrame == [x |-> 0, y |-> 0, width |-> 0, height |-> 0, texture |-> None]
NoWindow == [width |-> 0, height |-> 0, min |-> <<0, 0>>]
NotShown == [frame |-> NoFrame, again |-> FALSE]
NoOutput == [window |-> <<0, 0>>, width |-> 0, height |-> 0, pixels |-> "none"]

VARIABLES
  image,          \* dimensions of the caller's RgbaImage (read only)
  request,        \* window_width, window_height as passed by the caller
  pc,             \* position in display_image
  window_size,    \* the shadowing locals window_width, window_height
  output_image,   \* (output_image_width, output_image_height, output_image)
                  \* of the latest create_display_image call, with the
                  \* window size it was called with
  surface_img,    \* the Surface built from the raw pixels
  window,         \* the sdl2 window as built
  texture,        \* the texture currently held by `texture`
  frame,          \* what the last canvas.present() put on screen
  queue,          \* the SDL event queue
  event,          \* the event bound by the `for` loop
  panic,          \* message of the expect/unwrap that failed, or "none"
  last_resize,    \* history: (x, y) of the last dequeued Resized event
  resizes,        \* history: re-fits and renders since the last dequeue
  first_shown     \* history: per resize size, the frame first shown for it
                  \* and whether that size has been shown again since

vars == <<image, request, pc, window_size, output_image, surface_img, window,
          texture, frame, queue, event, panic, last_resize, resizes,
          first_shown>>

\* everything the program itself owns (all but the event queue)
prog == <<image, request, pc, window_size, output_image, surface_img, window,
          texture, frame, event, panic, last_resize, resizes, first_shown>>

Init ==
  /\ image \in Images
  /\ request \in Requests
  /\ pc = "clamp"
  /\ window_size = <<0, 0>>
  /\ output_image = NoOutput
  /\ surface_img = NoSurface
  /\ window = NoWindow
  /\ texture = None
  /\ frame = NoFrame
  /\ queue = <<>>
  /\ event = NoEvent
  /\ panic = "none"
  /\ last_resize = <<0, 0>>
  /\ resizes = [fits |-> 0, renders |-> 0]
  /\ first_shown = [s \in ResizeSizes |-> NotShown]

\* variant: the request is used as given
ClampDimNone(d) == d

\* lines 15-24
ClampDim(d) == IF d < MIN_WINDOW_DIMENSION THEN MIN_WINDOW_DIMENSION ELSE d

\* variant: the error is dropped and execution continues
ExpectIgnore(ok, next) == next

\* .expect(..) / .unwrap(): continue at `next` on Ok, panic on Err
Expect(ok, next) == IF ok THEN next ELSE "Aborted"

Message(ok, msg) == IF ok THEN "none" ELSE msg

\* the call create_display_image(image, window_width, window_height)
Fit(target) ==
  LET out == create_display_image(image[1], image[2], target[1], target[2])
  IN  [window |-> target, width |-> out.width, height |-> out.height,
       pixels |-> out.pixels]

\* Surface::from_data(&mut img_raw, width, height, pitch, ABGR8888)
SurfaceOf(out) ==
  [width |-> out.width, height |-> out.height,
   pitch |-> out.width * CHANNEL_COUNT, pixels |-> out.pixels]

\* texture_creator.create_texture_from_surface(surface_img)
TextureOf(surf) ==
  [width |-> surf.width, height |-> surf.height, pixels |-> surf.pixels]

\* the Rect handed to canvas.copy and the texture drawn into it
FrameOf(target, out, tex) ==
  [x |-> Center(target[1], out.width), y |-> Center(target[2], out.height),
   width |-> out.width, height |-> out.height, texture |-> tex]

(***************************************************************************)
(* Initialisation, lines 15-112.                                           *)
(***************************************************************************)
Clamp ==
  /\ pc = "clamp"
  /\ window_size' = <<ClampDim(request[1]), ClampDim(request[2])>>
  /\ pc' = "fit"
  /\ UNCHANGED <<image, request, output_image, surface_img, window, texture,
                 frame, queue, event, panic, last_resize, resizes, first_shown>>

InitialFit ==
  /\ pc = "fit"
  /\ output_image' = Fit(window_size)
  /\ pc' = "surface"
  /\ UNCHANGED <<image, request, window_size, surface_img, window, texture,
                 frame, queue, event, panic, last_resize, resizes, first_shown>>

CreateSurface ==
  /\ pc = "surface"
  /\ \E ok \in BOOLEAN :
       /\ surface_img' = IF ok THEN SurfaceOf(output_image) ELSE surface_img
       /\ pc' = Expect(ok, "sdl_init")
       /\ panic' = Message(ok, "couldn't converted image to surface")
  /\ UNCHANGED <<image, request, window_size, output_image, window, texture,
                 frame, queue, event, last_resize, resizes, first_shown>>

SdlInit ==
  /\ pc = "sdl_init"
  /\ \E ok \in BOOLEAN :
       /\ pc' = Expect(ok, "video")
       /\ panic' = Message(ok, "couldn't create sdl2 context")
  /\ UNCHANGED <<image, request, window_size, output_image, surface_img,
                 window, texture, frame, queue, event, last_resize, resizes,
                 first_shown>>

VideoSubsystem ==
  /\ pc = "video"
  /\ \E ok \in BOOLEAN :
       /\ pc' = Expect(ok, "window")
       /\ panic' = Message(ok, "couldn't create video subsystem")
  /\ UNCHANGED <<image, request, window_size, output_image, surface_img,
                 window, texture, frame, queue, event, last_resize, resizes,
                 first_shown>>

BuildWindow ==
  /\ pc = "window"
  /\ \E ok \in BOOLEAN :
       /\ window' = IF ok
                    THEN [width |-> window_size[1], height |-> window_size[2],
                          min |-> <<0, 0>>]
                    ELSE window
       /\ pc' = Expect(ok, "min_size")
       /\ panic' = Message(ok, "window couldn't be created")
  /\ UNCHANGED <<image, request, window_size, output_image, surface_img,
                 texture, frame, queue, event, last_resize, resizes,
                 first_shown>>

SetMinimumSize ==
  /\ pc = "min_size"
  /\ \E ok \in BOOLEAN :
       /\ window' = IF ok
                    THEN [window EXCEPT !.min = <<MIN_WINDOW_DIMENSION,
                                                  MIN_WINDOW_DIMENSION>>]
                    ELSE window
       /\ pc' = Expect(ok, "canvas")
       /\ panic' = Message(ok, "invalid minimum size for window")
  /\ UNCHANGED <<image, request, window_size, output_image, surface_img,
                 texture, frame, queue, event, last_resize, resizes,
                 first_shown>>

BuildCanvas ==
  /\ pc = "canvas"
  /\ \E ok \in BOOLEAN :
       /\ pc' = Expect(ok, "texture")
       /\ panic' = Message(ok, "Couldn't create CanvasBuilder")
  /\ UNCHANGED <<image, request, window_size, output_image, surface_img,
                 window, texture, frame, queue, event, last_resize, resizes,
                 first_shown>>

CreateTexture ==
  /\ pc = "texture"
  /\ \E ok \in BOOLEAN :
       /\ texture' = IF ok THEN TextureOf(surface_img) ELSE texture
       /\ pc' = Expect(ok, "render")
       /\ panic' = Message(ok, "couldn't create texture from surface")
  /\ UNCHANGED <<image, request, window_size, output_image, surface_img,
                 window, frame, queue, event, last_resize, resizes,
                 first_shown>>

\* lines 93-108: centre, clear to white, copy, present
Render ==
  /\ pc = "render"
  /\ \E ok \in BOOLEAN :
       /\ frame' = IF ok THEN FrameOf(window_size, output_image, texture)
                   ELSE frame
       /\ pc' = Expect(ok, "event_pump")
       /\ panic' = Message(ok, "canvas.copy")
  /\ UNCHANGED <<image, request, window_size, output_image, surface_img,
                 window, texture, queue, event, last_resize, resizes,
                 first_shown>>

EventPump ==
  /\ pc = "event_pump"
  /\ \E ok \in BOOLEAN :
       /\ pc' = Expect(ok, "poll")
       /\ panic' = Message(ok, "sdl.event_pump")
  /\ UNCHANGED <<image, request, window_size, output_image, surface_img,
                 window, texture, frame, queue, event, last_resize, resizes,
                 first_shown>>

(***************************************************************************)
(* The event loop, lines 113-161.                                          *)
(***************************************************************************)
\* variant: only Event::Quit leaves the loop
DispatchNoEscape(e) ==
  IF e.type = "Quit" THEN "Terminated"
  ELSE IF e.type = "WindowResized" THEN "resize_fit"
  ELSE "poll"

\* the match of lines 115-159: where control goes for a dequeued event
Dispatch(e) ==
  IF e.type \in {"Quit", "KeyDownEscape"} THEN "Terminated"
  ELSE IF e.type = "WindowResized" THEN "resize_fit"
  ELSE "poll"

\* variant: the resize size is clamped like the initial request
ResizeTargetClamped(e) == <<ClampDim(e.x), ClampDim(e.y)>>

\* lines 125-126: x as u32, y as u32 (value preserving: SDL reports
\* non-negative sizes)
ResizeTarget(e) == <<e.x, e.y>>

\* variant: the fit target never shrinks below the previous one
ResizeFitSticky(e) ==
  Fit(<<IF e.x < output_image.window[1] THEN output_image.window[1] ELSE e.x,
        IF e.y < output_image.window[2] THEN output_image.window[2] ELSE e.y>>)

\* the call create_display_image(image, x, y) of lines 128-129
ResizeFit(e) == Fit(ResizeTarget(e))

\* event_pump.poll_iter() yields the oldest queued event; an empty queue ends
\* the `for` and the outer loop polls again, which changes nothing
Poll ==
  /\ pc = "poll"
  /\ queue # <<>>
  /\ event' = Head(queue)
  /\ queue' = Tail(queue)
  /\ pc' = Dispatch(Head(queue))
  /\ last_resize' = IF Head(queue).type = "WindowResized"
                    THEN <<Head(queue).x, Head(queue).y>> ELSE last_resize
  /\ resizes' = [fits |-> 0, renders |-> 0]
  /\ UNCHANGED <<image, request, window_size, output_image, surface_img,
                 window, texture, frame, panic, first_shown>>

ResizeRefit ==
  /\ pc = "resize_fit"
  /\ output_image' = ResizeFit(event)
  /\ resizes' = [resizes EXCEPT !.fits = @ + 1]
  /\ pc' = "resize_surface"
  /\ UNCHANGED <<image, request, window_size, surface_img, window, texture,
                 frame, queue, event, panic, last_resize, first_shown>>

ResizeSurface ==
  /\ pc = "resize_surface"
  /\ \E ok \in BOOLEAN :
       /\ surface_img' = IF ok THEN SurfaceOf(output_image) ELSE surface_img
       /\ pc' = Expect(ok, "resize_texture")
       /\ panic' = Message(ok, "couldn't convert image to surface")
  /\ UNCHANGED <<image, request, window_size, output_image, window, texture,
                 frame, queue, event, last_resize, resizes, first_shown>>

ResizeTexture ==
  /\ pc = "resize_texture"
  /\ \E ok \in BOOLEAN :
       /\ texture' = IF ok THEN TextureOf(surface_img) ELSE texture
       /\ pc' = Expect(ok, "resize_render")
       /\ panic' = Message(ok, "couldn't create texture from surface")
  /\ UNCHANGED <<image, request, window_size, output_image, surface_img,
                 window, frame, queue, event, last_resize, resizes,
                 first_shown>>

\* lines 146-156: centre, clear, copy, present
ResizeRender ==
  /\ pc = "resize_render"
  /\ \E ok \in BOOLEAN :
       LET shown == FrameOf(ResizeTarget(event), output_image, texture)
           size  == <<event.x, event.y>>
       IN  /\ frame' = IF ok THEN shown ELSE frame
           /\ resizes' = IF ok THEN [resizes EXCEPT !.renders = @ + 1]
                         ELSE resizes
           /\ first_shown' =
                IF ~ok THEN first_shown
                ELSE IF first_shown[size] = NotShown
                THEN [first_shown EXCEPT ![size].frame = shown]
                ELSE [first_shown EXCEPT ![size].again = TRUE]
           /\ pc' = Expect(ok, "poll")
           /\ panic' = Message(ok, "canvas.copy")
  /\ UNCHANGED <<image, request, window_size, output_image, surface_img,
                 window, texture, queue, event, last_resize>>

(***************************************************************************)
(* The environment: the windowing layer appends events to the queue from   *)
(* the moment the video subsystem exists until the call ends.              *)
(***************************************************************************)
Ended == pc \in {"Terminated", "Aborted"}

Queueing ==
  pc \notin {"clamp", "fit", "surface", "sdl_init", "video"} /\ ~Ended

Enqueue ==
  /\ Queueing
  /\ Len(queue) < MaxQueue
  /\ \E e \in Events : queue' = Append(queue, e)
  /\ UNCHANGED prog

Next ==
  \/ Clamp \/ InitialFit \/ CreateSurface \/ SdlInit \/ VideoSubsystem
  \/ BuildWindow \/ SetMinimumSize \/ BuildCanvas \/ CreateTexture \/ Render
  \/ EventPump \/ Poll \/ ResizeRefit \/ ResizeSurface \/ ResizeTexture
  \/ ResizeRender \/ Enqueue

Spec == Init /\ [][Next]_vars

\* the calling thread keeps running: it is never stopped between statements,
\* so whatever statement it is at is eventually executed
Program ==
  \/ Clamp \/ InitialFit \/ CreateSurface \/ SdlInit \/ VideoSubsystem
  \/ BuildWindow \/ SetMinimumSize \/ BuildCanvas \/ CreateTexture \/ Render
  \/ EventPump \/ Poll \/ ResizeRefit \/ ResizeSurface \/ ResizeTexture
  \/ ResizeRender

\* Liveness is checked for one image and one request: which statement runs
\* next never depends on the dimensions.
LiveInit == Init /\ image = <<1000, 500>> /\ request = <<800, 600>>

FairSpec == LiveInit /\ [][Next]_vars /\ WF_vars(Program)

(***************************************************************************)
(* The fit on its own: create_display_image applied to source and target   *)
(* dimensions drawn from 1..MaxFitDim and from FitExtremes, without the    *)
(* clamp.  FitExtremes holds the minimum window dimension, a width whose   *)
(* scale is inexact in f32, and the first odd integers past 2^24, which    *)
(* `as f32` cannot represent.                                              *)
(***************************************************************************)
FitExtremes == {150, 291, 16777217, 16777219}
FitDims == (1 .. MaxFitDim) \cup FitExtremes

FitInit ==
  /\ image \in FitDims \X FitDims
  /\ window_size \in FitDims \X FitDims
  /\ request = window_size
  /\ pc = "fit"
  /\ output_image = NoOutput
  /\ surface_img = NoSurface
  /\ window = NoWindow
  /\ texture = None
  /\ frame = NoFrame
  /\ queue = <<>>
  /\ event = NoEvent
  /\ panic = "none"
  /\ last_resize = <<0, 0>>
  /\ resizes = [fits |-> 0, renders |-> 0]
  /\ first_shown = [s \in ResizeSizes |-> NotShown]

FitNext == InitialFit

SpecFit == FitInit /\ [][FitNext]_vars

(***************************************************************************)
(* Properties.                                                             *)
(***************************************************************************)
Fitted == output_image # NoOutput

\* the clamped request, written out per axis
Effective(d) == IF d < 150 THEN 150 ELSE d
EffectiveRequest == <<Effective(request[1]), Effective(request[2])>>

\* C1: for positive source (w,h) and target (W,H) the fit returns (w,h)
\* unchanged when w < W and h < H, otherwise a size within (W,H); in both
\* cases the result is no larger than the source on either axis.
C1_FitWithinTargetNoUpscale ==
  Fitted =>
    LET w == image[1]
        h == image[2]
        W == output_image.window[1]
        H == output_image.window[2]
    IN  /\ (w < W /\ h < H) =>
              (output_image.width = w /\ output_image.height = h)
        /\ ~(w < W /\ h < H) =>
              (output_image.width <= W /\ output_image.height <= H)
        /\ output_image.width <= w
        /\ output_image.height <= h

\* C2: whenever the fitted dimensions equal the source dimensions, the
\* fitted image is a direct copy of the source and no resampling is done.
C2_UnchangedSizeIsCopy ==
  (Fitted /\ output_image.width = image[1] /\ output_image.height = image[2])
    => output_image.pixels = "clone"

\* C3: a requested dimension below 150 becomes 150, one of 150 or more is
\* kept, per axis; the initial fit and the created window use these values.
C3_ClampedRequestUsed ==
  /\ pc # "clamp" => window_size = EffectiveRequest
  /\ (Fitted /\ last_resize = <<0, 0>>) =>
        output_image.window = EffectiveRequest
  /\ window # NoWindow =>
        (window.width = EffectiveRequest[1]
         /\ window.height = EffectiveRequest[2])

C3_Witness ==
  /\ request = <<100, 200>>
  /\ window = [width |-> 150, height |-> 200, min |-> <<150, 150>>]
  /\ output_image.window = <<150, 200>>

\* C4: every rendered frame draws the fitted image (w',h') at the
\* non-negative offset (floor((W - w')/2), floor((H - h')/2)), (W,H) being
\* the clamped request for the initial frame and the resize event's (x,y)
\* for the frame after a resize.
C4_FrameCentered ==
  [][(pc \in {"render", "resize_render"} /\ pc' \notin {pc, "Aborted"}) =>
       LET T == IF pc = "render" THEN EffectiveRequest
                ELSE <<event.x, event.y>>
       IN  /\ frame'.width = output_image.width
           /\ frame'.height = output_image.height
           /\ frame'.x = (T[1] - frame'.width) \div 2
           /\ frame'.y = (T[2] - frame'.height) \div 2
           /\ frame'.x >= 0
           /\ frame'.y >= 0]_vars

C4_Witness ==
  /\ pc = "poll"
  /\ event = Resized(300, 300)
  /\ image = <<1000, 500>>
  /\ frame.x = 0
  /\ frame.y = 75
  /\ frame.width = 300
  /\ frame.height = 150

QuitQueued ==
  \E i \in 1 .. Len(queue) : queue[i].type \in {"Quit", "KeyDownEscape"}

\* dequeuing Quit or Escape goes straight to Terminated, and nothing
\* happens once Terminated: no event is taken, no frame is rendered
QuitEndsSession ==
  /\ [][(pc = "poll" /\ queue # <<>> /\ queue' = Tail(queue)
         /\ Head(queue).type \in {"Quit", "KeyDownEscape"})
        => (pc' = "Terminated" /\ frame' = frame)]_vars
  /\ [][pc = "Terminated" => UNCHANGED vars]_vars

\* C5 as amended: dequeuing Quit or Escape goes straight to Terminated with
\* nothing processed or rendered afterwards, and a queued Quit/Escape
\* eventually leads to Terminated unless the call first aborts on a failed
\* graphics step.
C5_QuitTerminatesOrAborts ==
  QuitEndsSession /\ (QuitQueued ~> Ended)

\* C5 as stated: ... and any queued Quit/Escape eventually leads to
\* Terminated.
C5_QuitAlwaysTerminates ==
  QuitEndsSession /\ (QuitQueued ~> (pc = "Terminated"))

C5_Witness ==
  /\ pc = "Terminated"
  /\ event = Escape
  /\ queue # <<>>
  /\ last_resize # <<0, 0>>

\* C6: whenever the session awaits events, the frame on screen is the fit
\* of the source against the clamped request (no resize processed yet) or
\* against the (x,y) of the last processed resize event as delivered, and a
\* processed resize event has had exactly one re-fit and one render.
C6_FrameFitsLatestSize ==
  pc = "poll" =>
    LET T   == IF last_resize = <<0, 0>> THEN EffectiveRequest
               ELSE last_resize
        out == create_display_image(image[1], image[2], T[1], T[2])
    IN  /\ output_image.window = T
        /\ frame.width = out.width
        /\ frame.height = out.height
        /\ frame.texture = [width |-> out.width, height |-> out.height,
                            pixels |-> out.pixels]
        /\ event.type = "WindowResized" =>
              (resizes = [fits |-> 1, renders |-> 1]
               /\ last_resize = <<event.x, event.y>>)
        /\ event.type # "WindowResized" =>
              resizes = [fits |-> 0, renders |-> 0]

C6_Witness ==
  /\ pc = "poll"
  /\ image = <<1000, 500>>
  /\ last_resize = <<120, 100>>
  /\ event = OtherKey
  /\ frame.width = 120
  /\ frame.height = 60

\* C7: a resize event with the same (x,y) as an earlier one yields the same
\* fitted dimensions, pixels and offset as the first time, whatever was
\* shown in between.
C7_RefitIdempotent ==
  (pc = "poll" /\ event.type = "WindowResized") =>
     frame = first_shown[<<event.x, event.y>>].frame

C7_Witness ==
  /\ pc = "poll"
  /\ image = <<1000, 500>>
  /\ event = Resized(300, 300)
  /\ first_shown[<<300, 300>>].again
  /\ first_shown[<<120, 100>>] # NotShown
  /\ frame.width = 300

\* C8: a failed graphics/windowing step aborts at once: the step has no
\* effect, and no step of any kind follows it, so nothing is retried, no
\* event is processed and Terminated is never reached.
C8_FailureAborts ==
  [][/\ panic = "none"
     /\ panic' # "none" =>
          (pc' = "Aborted"
           /\ UNCHANGED <<output_image, surface_img, window, texture, frame,
                          queue, event>>)]_vars

C8_Witness ==
  /\ pc = "Aborted"
  /\ panic = "couldn't create texture from surface"
  /\ last_resize # <<0, 0>>
  /\ queue # <<>>
  /\ frame # NoFrame

\* C9: in the scaling branch the limiting dimension equals its target: the
\* output is (W, floor(W*h/w)) if W/w <= H/h and (floor(H*w/h), H)
\* otherwise.
C9_LimitingDimensionExact ==
  Fitted =>
    LET w == image[1]
        h == image[2]
        W == output_image.window[1]
        H == output_image.window[2]
    IN  ~(w < W /\ h < H) =>
          IF W * h <= H * w
          THEN output_image.width = W
               /\ output_image.height = (W * h) \div w
          ELSE output_image.width = (H * w) \div h
               /\ output_image.height = H

\* C10: for a target of at least 150 on both axes the fitted width and
\* height are at least 1, and so are those of the surface and the frame.
C10_FittedNeverEmpty ==
  (Fitted /\ output_image.window[1] >= 150 /\ output_image.window[2] >= 150)
    => /\ output_image.width >= 1
       /\ output_image.height >= 1

====
